---- MODULE Spec2Model ----
\* A model of PyQBench's batching, submission and resolution engine:
\*   qbench/batching.py                  batch_circuits_with_keys, execute_in_batches
\*   qbench/fourier/experiment_runner.py run_experiment, fetch_statuses, resolve_results,
\*                                       _resolve_batches, tabulate_results
\*   qbench/testing.py                   MockSimulator
\*   qbench/limits.py                    get_limits
\*   qbench/jobs.py                      retrieve_jobs
EXTENDS Integers, Sequences, FiniteSets, TLC

VARIABLES
    pc,            \* position of the calling program
    experiments,   \* the FourierExperimentSet: [qubits, num_steps, method]
    asynchronous,  \* backend_description.asynchronous
    backend,       \* the backend object get_backend hands out: [type, instance, job_count, job_dict, ...]
    circuits,      \* circuits handed to execute_in_batches
    keys,          \* keys handed to execute_in_batches (keys[i] -> circuits[i])
    batch_size,    \* max_circuits_per_batch (None or an integer)
    batches,       \* the list built by batch_circuits_with_keys
    gen_pos,       \* number of batches the generator of execute_in_batches has consumed
    batch_jobs,    \* the BatchJobs obtained so far, in order
    cursor,        \* position of _iter_batches: [b |-> batch number, i |-> 0-based index in batch]
    resolved,      \* the defaultdict of _resolve_batches, in insertion order
    num_failed,    \* the failure counter of _resolve_batches
    warnings,      \* number of logger.warning calls of the running or last ended call
    error,         \* name of the exception that left the running call, or "none"
    data,          \* data of the FourierDiscriminationSyncResult returned
    async_data,    \* data of the FourierDiscriminationAsyncResult returned
    table,         \* rows of the DataFrame returned by tabulate_results
    statuses,      \* the dictionary returned by the last fetch_statuses: {<<name, count>>}
    status_calls,  \* number of fetch_statuses calls made on the asynchronous result
    columns,       \* columns of the DataFrame returned by tabulate_results
    returned       \* data of the results the resolve_results calls returned, in call order

vars == <<pc, experiments, asynchronous, backend, circuits, keys, batch_size, batches,
          gen_pos, batch_jobs, cursor, resolved, num_failed, warnings, error, data,
          async_data, table, statuses, status_calls, columns, returned>>

\* ---------------------------------------------------------------- bounds
MaxPairs == 3      \* qubit pairs of an experiment set
MaxSteps == 3      \* angles.num_steps of an experiment set
MaxLabels == 9     \* identities (qubit pair, angle) of an experiment set that is run
MaxBatch == 3      \* configuration().max_experiments of an IBMQ backend
MaxFailIdx == 2    \* largest submission index that may be marked failing
MaxN == 5          \* number of circuits handed directly to the batching functions
MaxKeyVal == 2     \* distinct key values handed directly to the batching functions
MaxStatusCalls == 2 \* calls of fetch_statuses on one asynchronous result
MaxResolveCalls == 2   \* resolve_results calls on one asynchronous result
MaxResets == 2         \* MockProvider.reset_caches calls
MaxRawPairs == 2       \* qubit pairs of an experiment description before validation
MaxAngle == 1          \* largest start and stop of such a description
MaxEntries == 2    \* entries of a synchronous result handed directly to tabulate_results

\* Optional[int]: None is encoded as -1 (no size is negative)
None == 0 - 1

\* max_circuits of _get_limits_for_mock_backend
MockMaxCircuits == 2

\* max_shots of _get_limits_for_aws_backend: Lucy, Aspen devices, simulators
LucyMaxShots == 10000

AspenMaxShots == 100000

SimulatorMaxShots == 100000

\* ---------------------------------------------------------------- helpers
Min(a, b) == IF a < b THEN a ELSE b

Range(s) == {s[j] : j \in DOMAIN s}

RECURSIVE SumLen(_)
SumLen(ss) == IF ss = <<>> THEN 0 ELSE Len(Head(ss)) + SumLen(Tail(ss))

RECURSIVE Flatten(_)
Flatten(ss) == IF ss = <<>> THEN <<>> ELSE Head(ss) \o Flatten(Tail(ss))

\* ---------------------------------------------------------------- qbench/batching.py
\* math.ceil(a / b) for a >= 0, b >= 1
Ceil_floor(a, b) == a \div b

Ceil(a, b) == (a + b - 1) \div b

\* list(islice(it, k)): the next (at most) k elements of an iterator over s
islice(s, k) == SubSeq(s, 1, Min(k, Len(s)))

\* what is left of the iterator after islice(it, k)
rest(s, k) == SubSeq(s, Min(k, Len(s)) + 1, Len(s))

\* the list comprehension of batch_circuits_with_keys: m rounds of islice on both iterators
RECURSIVE comprehension_stalekeys(_, _, _, _)
comprehension_stalekeys(cs, ks, k, m) ==
    IF m = 0 THEN <<>>
    ELSE <<[circuits |-> islice(cs, k), keys |-> islice(ks, k)]>>
         \o comprehension_stalekeys(rest(cs, k), ks, k, m - 1)

RECURSIVE comprehension(_, _, _, _)
comprehension(cs, ks, k, m) ==
    IF m = 0 THEN <<>>
    ELSE <<[circuits |-> islice(cs, k), keys |-> islice(ks, k)]>>
         \o comprehension(rest(cs, k), rest(ks, k), k, m - 1)

\* batch_circuits_with_keys; math.ceil(len(circuits) / 0) raises ZeroDivisionError
batch_circuits_with_keys_noempty(cs, ks, k) ==
    IF k = None
    THEN [outcome |-> "ok",
          batches |-> IF Len(cs) = 0 THEN <<>> ELSE <<[circuits |-> cs, keys |-> ks]>>]
    ELSE IF k = 0 THEN [outcome |-> "ZeroDivisionError", batches |-> <<>>]
    ELSE [outcome |-> "ok", batches |-> comprehension(cs, ks, k, Ceil(Len(cs), k))]

batch_circuits_with_keys(cs, ks, k) ==
    IF k = None
    THEN [outcome |-> "ok", batches |-> <<[circuits |-> cs, keys |-> ks]>>]
    ELSE IF k = 0 THEN [outcome |-> "ZeroDivisionError", batches |-> <<>>]
    ELSE [outcome |-> "ok", batches |-> comprehension(cs, ks, k, Ceil(Len(cs), k))]

\* ---------------------------------------------------------------- qbench/testing.py
\* the outcome histogram of running circuit c: determined by the circuit alone
Hist(c) == [of |-> c]

\* MockSimulator.run: the job for one list of circuits; it fails iff its submission index
\* is among fail_job_indices; the job wrappers give it properties() iff the backend was
\* made with _add_mitigation_info; the job is cached under its id.  A job id is unique
\* to the backend object that issued it: the object's number and the job's number on it
run_onebased(bk, cs) ==
    LET job == [job_id |-> <<bk.instance, bk.job_count + 1>>,
                circuits |-> cs,
                failed |-> (bk.job_count + 1) \in bk.fail_job_indices,
                properties |-> bk.mitigation]
    IN [backend |-> [bk EXCEPT !.job_count = @ + 1,
                               !.job_dict = Append(@, job)],
        job |-> job]

run(bk, cs) ==
    LET job == [job_id |-> <<bk.instance, bk.job_count + 1>>,
                circuits |-> cs,
                failed |-> bk.job_count \in bk.fail_job_indices,
                properties |-> bk.mitigation]
    IN [backend |-> [bk EXCEPT !.job_count = @ + 1,
                               !.job_dict = Append(@, job)],
        job |-> job]

\* MockSimulator.retrieve_job: self._job_dict[job_id], a KeyError for an id that this
\* backend object did not issue
retrieve_job(bk, job_id) ==
    IF \E j \in DOMAIN bk.job_dict : bk.job_dict[j].job_id = job_id
    THEN [outcome |-> "ok",
          job |-> bk.job_dict[CHOOSE j \in DOMAIN bk.job_dict :
                                     bk.job_dict[j].job_id = job_id]]
    ELSE [outcome |-> "KeyError"]

\* MockProvider.get_backend between two calls of reset_caches: the lru_cache of the
\* creating function hands every provider instance the one object made for the name
get_backend_uncached(cached) ==
    [cached EXCEPT !.instance = @ + 1, !.job_count = 0, !.job_dict = <<>>]

get_backend(cached) == cached

\* MockProvider.reset_caches: cache_clear, so that the next get_backend makes a new
\* object by MockSimulator.__init__: no job stored, no job counted
reset_caches_keep(cached) == [cached EXCEPT !.instance = @ + 1]

reset_caches(cached) ==
    [cached EXCEPT !.instance = @ + 1, !.job_count = 0, !.job_dict = <<>>]

\* ---------------------------------------------------------------- qbench/limits.py
\* str.lower and str.startswith on names written as sequences of characters
UpperCase ==
    <<"A", "B", "C", "D", "E", "F", "G", "H", "I", "J", "K", "L", "M",
      "N", "O", "P", "Q", "R", "S", "T", "U", "V", "W", "X", "Y", "Z">>

LowerCase ==
    <<"a", "b", "c", "d", "e", "f", "g", "h", "i", "j", "k", "l", "m",
      "n", "o", "p", "q", "r", "s", "t", "u", "v", "w", "x", "y", "z">>

lower(name) ==
    [j \in DOMAIN name |->
        IF \E u \in DOMAIN UpperCase : UpperCase[u] = name[j]
        THEN LowerCase[CHOOSE u \in DOMAIN UpperCase : UpperCase[u] = name[j]]
        ELSE name[j]]

startswith(name, prefix) ==
    /\ Len(name) >= Len(prefix)
    /\ SubSeq(name, 1, Len(prefix)) = prefix

\* Limits(max_circuits, max_shots) returned without an exception
Limits(max_circuits, max_shots) ==
    [outcome |-> "ok", max_circuits |-> max_circuits, max_shots |-> max_shots]

\* the classes a backend of each type is an instance of, most specific first
mro(type) == IF type = "mock" THEN <<"mock", "aer", "object">> ELSE <<type, "object">>

\* the classes get_limits has an implementation for: the registered ones and the default
registry == {"aws", "ibmq", "aer", "mock", "object"}

\* functools.singledispatch: the implementation of the first class of the MRO that has one
dispatch_base(type) ==
    mro(type)[CHOOSE j \in DOMAIN mro(type) :
                 /\ mro(type)[j] \in registry \ {"object"}
                 /\ \A h \in DOMAIN mro(type) :
                       (h > j) => mro(type)[h] \notin registry \ {"object"}]

dispatch(type) ==
    mro(type)[CHOOSE j \in DOMAIN mro(type) :
                 /\ mro(type)[j] \in registry
                 /\ \A h \in DOMAIN mro(type) : (h < j) => mro(type)[h] \notin registry]

_get_limits_for_aws_backend_default(bk) ==
    IF lower(bk.name) = <<"l", "u", "c", "y">>
    THEN Limits(None, LucyMaxShots)
    ELSE IF startswith(lower(bk.name), <<"a", "s", "p", "e", "n">>)
    THEN Limits(None, AspenMaxShots)
    ELSE IF bk.summary_simulator
    THEN Limits(None, SimulatorMaxShots)
    ELSE Limits(None, None)

_get_limits_for_aws_backend(bk) ==
    IF lower(bk.name) = <<"l", "u", "c", "y">>
    THEN Limits(None, LucyMaxShots)
    ELSE IF startswith(lower(bk.name), <<"a", "s", "p", "e", "n">>)
    THEN Limits(None, AspenMaxShots)
    ELSE IF bk.summary_simulator
    THEN Limits(None, SimulatorMaxShots)
    ELSE [outcome |-> "NotImplementedError", max_circuits |-> None, max_shots |-> None]

get_limits(bk) ==
    IF dispatch(bk.type) = "aws" THEN _get_limits_for_aws_backend(bk)
    ELSE IF dispatch(bk.type) = "ibmq" THEN Limits(bk.max_experiments, bk.max_shots)
    ELSE IF dispatch(bk.type) = "aer" THEN Limits(None, bk.max_shots)
    ELSE IF dispatch(bk.type) = "mock" THEN Limits(MockMaxCircuits, bk.max_shots)
    ELSE Limits(None, None)

\* ---------------------------------------------------------------- qbench/fourier/_models.py
\* the i-th qubit pair of an experiment file (pairwise distinct, target /= ancilla)
QubitsAt(p) == IF p = 1 THEN <<0, 1>> ELSE IF p = 2 THEN <<1, 0>> ELSE <<p - 1, p + 2>>

\* np.linspace(start, stop, num): start + (j - 1) * (stop - start) / (num - 1) for the
\* j-th of num > 1 angles, start alone for num = 1.  The angles of one call are written
\* in units of 1 / (num - 1), which keeps them integers and keeps their equalities
linspace(start, stop, num) ==
    [j \in 1..num |-> IF num = 1 THEN start ELSE start * (num - 1) + (j - 1) * (stop - start)]

\* QubitsPair.check_qubits_differ
check_qubits_differ(pair) == pair[1] /= pair[2]

\* FourierExperimentSet.check_if_all_pairs_of_qubits_are_different
check_if_all_pairs_of_qubits_are_different(qubits) ==
    Cardinality(Range(qubits)) = Len(qubits)

\* AnglesRange.check_if_start_smaller_than_stop
check_if_start_smaller_than_stop(e) == ~(e.start > e.stop)

\* AnglesRange.check_if_number_of_steps_is_one_when_start_equals_stop
check_if_number_of_steps_is_one_when_start_equals_stop(e) ==
    ~(e.start = e.stop /\ e.num_steps /= 1)

\* FourierExperimentSet(**description): pydantic runs the validators of the fields and
\* raises ValidationError if any of them raised
parse_obj_nodistinct(e) ==
    IF /\ \A j \in DOMAIN e.qubits : check_qubits_differ(e.qubits[j])
       /\ check_if_start_smaller_than_stop(e)
       /\ check_if_number_of_steps_is_one_when_start_equals_stop(e)
    THEN "ok"
    ELSE "ValidationError"

parse_obj(e) ==
    IF /\ \A j \in DOMAIN e.qubits : check_qubits_differ(e.qubits[j])
       /\ check_if_all_pairs_of_qubits_are_different(e.qubits)
       /\ check_if_start_smaller_than_stop(e)
       /\ check_if_number_of_steps_is_one_when_start_equals_stop(e)
    THEN "ok"
    ELSE "ValidationError"

\* FourierExperimentSet.enumerate_experiment_labels: qubit pairs outer, angles inner
enumerate_experiment_labels_angles_outer(e) ==
    LET phis == linspace(e.start, e.stop, e.num_steps)
    IN [idx \in 1..(Len(e.qubits) * e.num_steps) |->
           LET pair == e.qubits[((idx - 1) % Len(e.qubits)) + 1]
           IN <<pair[1], pair[2], phis[((idx - 1) \div Len(e.qubits)) + 1]>>]

enumerate_experiment_labels(e) ==
    LET phis == linspace(e.start, e.stop, e.num_steps)
    IN [idx \in 1..(Len(e.qubits) * e.num_steps) |->
           LET pair == e.qubits[((idx - 1) \div e.num_steps) + 1]
           IN <<pair[1], pair[2], phis[((idx - 1) % e.num_steps) + 1]>>]

\* ---------------------------------------------------------------- qbench/schemes
\* names of the circuits of assemble_direct_sum_circuits / assemble_postselection_circuits
circuit_names(method) ==
    IF method = "postselection" THEN <<"id_v0", "id_v1", "u_v0", "u_v1">>
    ELSE <<"id", "u">>

\* ---------------------------------------------------------------- experiment_runner.py
\* _collect_circuits_and_keys: one (bound circuit, key) pair per label and circuit name
_collect_circuits_and_keys(e) ==
    LET labels == enumerate_experiment_labels(e)
        names == circuit_names(e.method)
        V == Len(names)
        label(idx) == labels[((idx - 1) \div V) + 1]
        name(idx) == names[((idx - 1) % V) + 1]
    IN [circuits |-> [idx \in 1..(Len(labels) * V) |->
                         [qubits |-> <<label(idx)[1], label(idx)[2]>>,
                          variant |-> name(idx),
                          phi |-> label(idx)[3]]],
        keys |-> [idx \in 1..(Len(labels) * V) |->
                     <<label(idx)[1], label(idx)[2], name(idx), label(idx)[3]>>]]

\* job.result().get_counts(): a job of one experiment gives the histogram itself,
\* a job of several experiments gives the list of their histograms, in submission order
get_counts(job) ==
    IF Len(job.circuits) = 1
    THEN [kind |-> "dict", value |-> Hist(job.circuits[1])]
    ELSE [kind |-> "list", value |-> [j \in 1..Len(job.circuits) |-> Hist(job.circuits[j])]]

\* job.result(): _make_job_fail makes it raise QiskitError, a job that ran gives its
\* Result
job_result_ignores_failure(job) == [outcome |-> "ok", job |-> job]

job_result(job) ==
    IF job.failed THEN [outcome |-> "QiskitError"] ELSE [outcome |-> "ok", job |-> job]

\* the second try block of _extract_result_from_job: mitigation_info and
\* mitigated_histogram are set iff the job has properties(); the AttributeError of a
\* job without it is caught and passed over
mitigation_always(job) == TRUE

mitigation(job) == job.properties

\* _extract_result_from_job: outcome "None" for a failed job (QiskitError caught),
\* an uncaught KeyError or IndexError of the subscript [i], or the ResultForCircuit;
\* mitigated tells whether mitigation_info and mitigated_histogram are set
_extract_result_from_job_raise(job, target, ancilla, i, name) ==
    IF job_result(job).outcome = "QiskitError" THEN [outcome |-> "QiskitError"]
    ELSE IF get_counts(job).kind = "dict" THEN [outcome |-> "KeyError"]
    ELSE IF i >= Len(get_counts(job).value) THEN [outcome |-> "IndexError"]
    ELSE [outcome |-> "result",
          result |-> [name |-> name, histogram |-> get_counts(job).value[i + 1],
                      mitigated |-> mitigation(job)]]

_extract_result_from_job(job, target, ancilla, i, name) ==
    IF job_result(job).outcome = "QiskitError" THEN [outcome |-> "None"]
    ELSE IF get_counts(job).kind = "dict" THEN [outcome |-> "KeyError"]
    ELSE IF i >= Len(get_counts(job).value) THEN [outcome |-> "IndexError"]
    ELSE [outcome |-> "result",
          result |-> [name |-> name, histogram |-> get_counts(job).value[i + 1],
                      mitigated |-> mitigation(job)]]

\* resolved[target, ancilla, phi].append(result) on the insertion-ordered defaultdict
resolved_append_front(res, label, result) ==
    IF \E j \in DOMAIN res : res[j].label = label
    THEN [j \in DOMAIN res |->
             IF res[j].label = label
             THEN [res[j] EXCEPT !.results = Append(@, result)]
             ELSE res[j]]
    ELSE <<[label |-> label, results |-> <<result>>]>> \o res

resolved_append(res, label, result) ==
    IF \E j \in DOMAIN res : res[j].label = label
    THEN [j \in DOMAIN res |->
             IF res[j].label = label
             THEN [res[j] EXCEPT !.results = Append(@, result)]
             ELSE res[j]]
    ELSE Append(res, [label |-> label, results |-> <<result>>])

\* the body of the loop of _resolve_batches: a None result is counted, any other result
\* is appended under its (target, ancilla, phi); a key of resolved exists only once
\* something was appended under it
record_touch(res, failed, label, r) ==
    IF r.outcome = "None"
    THEN [resolved |-> IF \E j \in DOMAIN res : res[j].label = label
                       THEN res
                       ELSE Append(res, [label |-> label, results |-> <<>>]),
          num_failed |-> failed + 1]
    ELSE [resolved |-> resolved_append(res, label, r.result), num_failed |-> failed]

record(res, failed, label, r) ==
    IF r.outcome = "None"
    THEN [resolved |-> res, num_failed |-> failed + 1]
    ELSE [resolved |-> resolved_append(res, label, r.result), num_failed |-> failed]

\* the list of SingleResult built from resolved.items()
single_results(res) ==
    [j \in DOMAIN res |->
        [target |-> res[j].label[1], ancilla |-> res[j].label[2], phi |-> res[j].label[3],
         results_per_circuit |-> res[j].results]]

\* _iter_batches: the position after item i of a batch with n keys
iter_next_early(cur, n) == [b |-> cur.b + 1, i |-> 0]

iter_next(cur, n) ==
    IF cur.i + 1 < n THEN [cur EXCEPT !.i = @ + 1] ELSE [b |-> cur.b + 1, i |-> 0]

\* execute_in_batches: the batches are built at call time, the generator has consumed none
execute_in_batches_oversize(cs, ks, k) ==
    [outcome |-> batch_circuits_with_keys(cs, ks, k).outcome,
     batches |-> batch_circuits_with_keys(cs, ks, IF k = None \/ k = 0 THEN k ELSE k + 1).batches,
     gen_pos |-> 0]

execute_in_batches(cs, ks, k) ==
    [outcome |-> batch_circuits_with_keys(cs, ks, k).outcome,
     batches |-> batch_circuits_with_keys(cs, ks, k).batches,
     gen_pos |-> 0]

\* the element the generator of execute_in_batches yields for one batch
batch_job(bk, batch) ==
    [backend |-> run(bk, batch.circuits).backend,
     item |-> [job |-> run(bk, batch.circuits).job, keys |-> batch.keys]]

\* retrieve_jobs (qbench/jobs.py): one backend.retrieve_job call per id, whose first
\* KeyError ends the call
retrieve_jobs(bk, ids) ==
    IF \E j \in DOMAIN ids : retrieve_job(bk, ids[j]).outcome /= "ok"
    THEN [outcome |-> "KeyError", jobs |-> <<>>]
    ELSE [outcome |-> "ok", jobs |-> [j \in DOMAIN ids |-> retrieve_job(bk, ids[j]).job]]

\* the orders in which retrieve_jobs may hand back the jobs it was asked for
Reverse(seq) == [j \in DOMAIN seq |-> seq[Len(seq) + 1 - j]]

Rotate(seq) == [j \in DOMAIN seq |-> seq[(j % Len(seq)) + 1]]

Orderings(jobs) == {jobs, Reverse(jobs), Rotate(jobs)}

\* jobs_mapping = {job.job_id(): job for job in ...} and jobs_mapping[id]
jobs_mapping(jobs, id) == CHOOSE job \in Range(jobs) : job.job_id = id

\* batches = [BatchJob(jobs_mapping[entry.job_id], entry.keys) for entry in data]
batches_of_by_position(jobs, entries) ==
    [j \in DOMAIN entries |-> [job |-> jobs[j], keys |-> entries[j].keys]]

batches_of(jobs, entries) ==
    [j \in DOMAIN entries |->
        [job |-> jobs_mapping(jobs, entries[j].job_id), keys |-> entries[j].keys]]

\* job.status().name: _make_job_fail makes status() return ERROR, a job that ran is DONE
status(job) == IF job.failed THEN "ERROR" ELSE "DONE"

\* dict(Counter(names)): every name that occurs, with its number of occurrences
Counter_set(names) == {<<n, 1>> : n \in Range(names)}

Counter(names) ==
    {<<n, Cardinality({j \in DOMAIN names : names[j] = n})>> : n \in Range(names)}

\* [entry.job_id for entry in async_results.data]: an entry of a synchronous result
\* (a SingleResult) has no attribute job_id
job_ids(entries) ==
    IF \E j \in DOMAIN entries : "job_id" \notin DOMAIN entries[j]
    THEN [outcome |-> "AttributeError", ids |-> <<>>]
    ELSE [outcome |-> "ok", ids |-> [j \in DOMAIN entries |-> entries[j].job_id]]

\* fetch_statuses: the tally of the status names of the retrieved jobs, and the backend
\* as the call leaves it (retrieve_job is a lookup in the job store)
fetch_statuses_rerun(bk, entries) ==
    IF job_ids(entries).outcome /= "ok"
    THEN [outcome |-> job_ids(entries).outcome, statuses |-> {}, backend |-> bk]
    ELSE LET r == retrieve_jobs(bk, job_ids(entries).ids)
             jobs == r.jobs
         IN IF r.outcome /= "ok"
            THEN [outcome |-> r.outcome, statuses |-> {}, backend |-> bk]
            ELSE [outcome |-> "ok",
                  statuses |-> Counter([j \in DOMAIN jobs |-> status(jobs[j])]),
                  backend |-> run(bk, <<>>).backend]

fetch_statuses(bk, entries) ==
    IF job_ids(entries).outcome /= "ok"
    THEN [outcome |-> job_ids(entries).outcome, statuses |-> {}, backend |-> bk]
    ELSE LET r == retrieve_jobs(bk, job_ids(entries).ids)
             jobs == r.jobs
         IN IF r.outcome /= "ok"
            THEN [outcome |-> r.outcome, statuses |-> {}, backend |-> bk]
            ELSE [outcome |-> "ok",
                  statuses |-> Counter([j \in DOMAIN jobs |-> status(jobs[j])]),
                  backend |-> bk]

\* the warnings _resolve_batches logs once every batch has been processed
resolve_warnings_each(failed) == failed

resolve_warnings(failed) == IF failed /= 0 THEN 1 ELSE 0

\* _make_row of tabulate_results: one <name>_counts keyword per result of the entry goes to
\* compute_probabilities, which accepts exactly the circuit names of the method (TypeError
\* otherwise); the second value is appended when the mitigated histograms are there and
\* dropped (AttributeError caught) when they are None
_make_row(method, entry) ==
    LET rs == entry.results_per_circuit
    IN IF {rs[r].name : r \in DOMAIN rs} /= Range(circuit_names(method))
       THEN [outcome |-> "TypeError", row |-> <<>>]
       ELSE [outcome |-> "ok",
             row |-> <<entry.target, entry.ancilla, entry.phi, "disc_prob">>
                     \o (IF \A r \in DOMAIN rs : rs[r].mitigated
                         THEN <<"mit_disc_prob">>
                         ELSE <<>>)]

\* pd.DataFrame(data=rows, columns=columns): a row longer than the columns is an error,
\* a shorter row is filled up with missing values
DataFrame(rows, cols) ==
    IF \E j \in DOMAIN rows : Len(rows[j]) > Len(cols)
    THEN [outcome |-> "ValueError", columns |-> <<>>, rows |-> <<>>]
    ELSE [outcome |-> "ok",
          columns |-> cols,
          rows |-> [j \in DOMAIN rows |->
                      [c \in DOMAIN cols |->
                          IF c <= Len(rows[j]) THEN rows[j][c] ELSE "NaN"]]]

\* tabulate_results: the rows of all entries, then the columns chosen from rows[0]
tabulate_results(method, entries) ==
    LET made == [j \in DOMAIN entries |-> _make_row(method, entries[j])]
    IN IF \E j \in DOMAIN made : made[j].outcome /= "ok"
       THEN [outcome |-> "TypeError", columns |-> <<>>, rows |-> <<>>]
       ELSE IF entries = <<>>
       THEN [outcome |-> "IndexError", columns |-> <<>>, rows |-> <<>>]
       ELSE DataFrame([j \in DOMAIN made |-> made[j].row],
                      IF Len(made[1].row) = 4
                      THEN <<"target", "ancilla", "phi", "disc_prob">>
                      ELSE <<"target", "ancilla", "phi", "disc_prob", "mit_disc_prob">>)

\* ---------------------------------------------------------------- initial states
\* configuration().max_shots of a backend that has a configuration (MockSimulator has
\* the configuration of AerSimulator); the numbers only have to tell the backends apart
configuration_max_shots(type) ==
    IF type \in {"aer", "mock"} THEN 1000000
    ELSE IF type = "ibmq" THEN 8192
    ELSE None

\* name and summary_simulator ("simulator" in the device summary) are read by the AWS
\* rule only
FreshBackend(type, k, fail, mit) ==
    [type |-> type, max_experiments |-> k, fail_job_indices |-> fail, mitigation |-> mit,
     max_shots |-> configuration_max_shots(type), name |-> <<>>,
     summary_simulator |-> FALSE, instance |-> 0, job_count |-> 0, job_dict |-> <<>>]

\* names of AWS Braket devices
DeviceNames ==
    {<<"L", "u", "c", "y">>,
     <<"A", "s", "p", "e", "n", "-", "M", "-", "2">>,
     <<"S", "V", "1">>,
     <<"u", "n", "k", "n", "o", "w", "n", "_", "b", "a", "c", "k", "e", "n", "d">>}

\* the backends a run is made on: AerSimulator; the mock backends MockProvider creates
\* (plain, failing at given submission indices, with mitigation info); a backend with a
\* limit of experiments per job, with or without a failing first job; the local Braket
\* simulator; AWS devices
Backends ==
    {FreshBackend("aer", None, {}, FALSE)}
    \cup {FreshBackend("mock", None, F, FALSE) : F \in SUBSET (0..MaxFailIdx)}
    \cup {FreshBackend("mock", None, {}, TRUE)}
    \cup {FreshBackend("ibmq", k, F, FALSE) : k \in 1..MaxBatch, F \in SUBSET {0}}
    \cup {FreshBackend("braket_local", None, {}, FALSE)}
    \cup {[FreshBackend("aws", None, {}, FALSE) EXCEPT !.name = n, !.summary_simulator = sim] :
             n \in DeviceNames, sim \in BOOLEAN}

\* validated experiment sets: angles from 0 to 1, or the single angle 0
ExperimentSets ==
    {[qubits |-> [p \in 1..np |-> QubitsAt(p)], start |-> 0,
      stop |-> (IF ns = 1 THEN 0 ELSE 1), num_steps |-> ns, method |-> m] :
        <<np, ns>> \in {x \in (1..MaxPairs) \X (1..MaxSteps) : x[1] * x[2] <= MaxLabels},
        m \in {"direct_sum", "postselection"}}

\* experiment descriptions as a file may hold them, before validation: pairs that may
\* repeat or name one qubit twice, angle ranges of any shape
RawPairs == {<<0, 1>>, <<1, 0>>, <<1, 1>>}

RawExperimentSets ==
    {[qubits |-> q, start |-> a, stop |-> b, num_steps |-> ns, method |-> m] :
        q \in UNION {[1..np -> RawPairs] : np \in 1..MaxRawPairs},
        a \in 0..MaxAngle, b \in 0..MaxAngle, ns \in 1..MaxSteps,
        m \in {"direct_sum", "postselection"}}

InitCommon ==
    /\ batches = <<>>
    /\ gen_pos = 0
    /\ batch_jobs = <<>>
    /\ cursor = [b |-> 1, i |-> 0]
    /\ resolved = <<>>
    /\ num_failed = 0
    /\ warnings = 0
    /\ error = "none"
    /\ data = <<>>
    /\ async_data = <<>>
    /\ table = <<>>
    /\ statuses = {}
    /\ status_calls = 0
    /\ returned = <<>>
    /\ columns = <<>>

\* a program about to call run_experiment
Init ==
    /\ pc = "start"
    /\ experiments \in ExperimentSets
    /\ asynchronous \in BOOLEAN
    /\ backend \in Backends
    /\ circuits = <<>>
    /\ keys = <<>>
    /\ batch_size = None
    /\ InitCommon

\* a program about to call the batching functions directly (tests/test_batching.py)
InitBatching ==
    /\ pc = "call"
    /\ experiments = [qubits |-> <<>>, start |-> 0, stop |-> 0, num_steps |-> 1,
                      method |-> "direct_sum"]
    /\ asynchronous = FALSE
    /\ backend = FreshBackend("aer", None, {}, FALSE)
    /\ \E n \in 0..MaxN :
          /\ circuits = [j \in 1..n |-> j]
          /\ keys \in [1..n -> 1..MaxKeyVal]
    /\ batch_size \in {None} \cup (0..MaxBatch)
    /\ InitCommon

\* a program about to build a FourierExperimentSet from the description it read
InitModels ==
    /\ pc = "parse_call"
    /\ experiments \in RawExperimentSets
    /\ asynchronous = FALSE
    /\ backend = FreshBackend("aer", None, {}, FALSE)
    /\ circuits = <<>>
    /\ keys = <<>>
    /\ batch_size = None
    /\ InitCommon

\* the results_per_circuit an entry can hold: results for some of the circuit names, in
\* the order of the names, all of them with mitigation data or all without
ResultLists(method) ==
    LET names == circuit_names(method)
        pick(N) == [k \in 1..Cardinality(N) |->
                      CHOOSE j \in N : Cardinality({h \in N : h < j}) = k - 1]
    IN {[k \in 1..Cardinality(N) |->
            [name |-> names[pick(N)[k]],
             histogram |-> Hist(names[pick(N)[k]]),
             mitigated |-> mit]] : N \in SUBSET (DOMAIN names), mit \in BOOLEAN}

\* a program about to call tabulate_results on a FourierDiscriminationSyncResult it holds
\* (read from a file): up to MaxEntries entries, the j-th for the j-th angle
InitTabulate ==
    /\ pc = "tabulate_call"
    /\ \E m \in {"direct_sum", "postselection"} :
          /\ experiments = [qubits |-> <<QubitsAt(1)>>, start |-> 0, stop |-> 1,
                            num_steps |-> MaxEntries, method |-> m]
          /\ \E n \in 0..MaxEntries : \E rl \in [1..n -> ResultLists(m)] :
                data = [j \in 1..n |->
                           [target |-> QubitsAt(1)[1], ancilla |-> QubitsAt(1)[2],
                            phi |-> linspace(0, 1, MaxEntries)[j],
                            results_per_circuit |-> rl[j]]]
    /\ asynchronous = FALSE
    /\ backend = FreshBackend("aer", None, {}, FALSE)
    /\ circuits = <<>>
    /\ keys = <<>>
    /\ batch_size = None
    /\ batches = <<>>
    /\ gen_pos = 0
    /\ batch_jobs = <<>>
    /\ cursor = [b |-> 1, i |-> 0]
    /\ resolved = <<>>
    /\ num_failed = 0
    /\ warnings = 0
    /\ error = "none"
    /\ async_data = <<>>
    /\ table = <<>>
    /\ statuses = {}
    /\ status_calls = 0
    /\ returned = <<>>
    /\ columns = <<>>

\* ---------------------------------------------------------------- actions
\* batch_circuits_with_keys(circuits, keys, max_circuits_per_batch)
BatchCircuitsWithKeys ==
    /\ pc = "call"
    /\ LET r == batch_circuits_with_keys(circuits, keys, batch_size)
       IN IF r.outcome = "ok"
          THEN /\ batches' = r.batches
               /\ pc' = "batched"
               /\ UNCHANGED error
          ELSE /\ error' = r.outcome
               /\ pc' = "raised"
               /\ UNCHANGED batches
    /\ UNCHANGED <<experiments, asynchronous, backend, circuits, keys, batch_size, gen_pos,
                   batch_jobs, cursor, resolved, num_failed, warnings, data, async_data,
                   table>>
    /\ UNCHANGED <<statuses, status_calls, columns, returned>>

\* execute_in_batches(backend, circuits, keys, shots, batch_size)
ExecuteInBatches ==
    /\ pc = "call"
    /\ LET r == execute_in_batches(circuits, keys, batch_size)
       IN IF r.outcome = "ok"
          THEN /\ batches' = r.batches
               /\ gen_pos' = r.gen_pos
               /\ pc' = "iterating"
               /\ UNCHANGED error
          ELSE /\ error' = r.outcome
               /\ pc' = "raised"
               /\ UNCHANGED <<batches, gen_pos>>
    /\ UNCHANGED <<experiments, asynchronous, backend, circuits, keys, batch_size,
                   batch_jobs, cursor, resolved, num_failed, warnings, data, async_data,
                   table>>
    /\ UNCHANGED <<statuses, status_calls, columns, returned>>

\* run_experiment up to the call of execute_in_batches; an exception of get_limits
\* leaves run_experiment before anything is submitted
RunExperiment ==
    /\ pc = "start"
    /\ LET ck == _collect_circuits_and_keys(experiments)
           limits == get_limits(backend)
           k == limits.max_circuits
       IN /\ circuits' = ck.circuits
          /\ keys' = ck.keys
          /\ IF limits.outcome = "ok"
             THEN /\ batch_size' = k
                  /\ batches' = execute_in_batches(ck.circuits, ck.keys, k).batches
                  /\ gen_pos' = execute_in_batches(ck.circuits, ck.keys, k).gen_pos
                  /\ pc' = IF asynchronous THEN "submitting" ELSE "resolving"
                  /\ UNCHANGED error
             ELSE /\ error' = limits.outcome
                  /\ pc' = "raised"
                  /\ UNCHANGED <<batch_size, batches, gen_pos>>
    /\ UNCHANGED <<experiments, asynchronous, backend, batch_jobs, cursor, resolved,
                   num_failed, warnings, data, async_data, table>>
    /\ UNCHANGED <<statuses, status_calls, columns, returned>>

\* one step of the generator of execute_in_batches: backend.run on the next batch
NextBatchJob ==
    /\ gen_pos < Len(batches)
    /\ \/ pc \in {"iterating", "submitting"}
       \/ pc = "resolving" /\ ~asynchronous /\ cursor.b > Len(batch_jobs)
    /\ LET r == batch_job(backend, batches[gen_pos + 1])
       IN /\ backend' = r.backend
          /\ batch_jobs' = Append(batch_jobs, r.item)
    /\ gen_pos' = gen_pos + 1
    /\ UNCHANGED <<pc, experiments, asynchronous, circuits, keys, batch_size, batches,
                   cursor, resolved, num_failed, warnings, error, data, async_data, table>>
    /\ UNCHANGED <<statuses, status_calls, columns, returned>>

\* run_experiment, asynchronous branch: the BatchResults of all jobs are returned
ReturnAsync ==
    /\ pc = "submitting"
    /\ gen_pos = Len(batches)
    /\ async_data' = [b \in DOMAIN batch_jobs |->
                         [job_id |-> batch_jobs[b].job.job_id, keys |-> batch_jobs[b].keys]]
    /\ pc' = "async_returned"
    /\ UNCHANGED <<experiments, asynchronous, backend, circuits, keys, batch_size, batches,
                   gen_pos, batch_jobs, cursor, resolved, num_failed, warnings, error, data,
                   table>>
    /\ UNCHANGED <<statuses, status_calls, columns, returned>>

\* resolve_results up to the call of _resolve_batches, on the asynchronous result: the
\* first call, or a later call on the same result.  retrieve_jobs may hand back the jobs
\* in any order; a KeyError of retrieve_job leaves the call
ResolveResults ==
    /\ IF pc = "resolved"
       THEN asynchronous /\ Len(returned) < MaxResolveCalls
       ELSE pc = "async_returned"
    /\ LET r == retrieve_jobs(get_backend(backend), job_ids(async_data).ids)
       IN IF r.outcome = "ok"
          THEN /\ \E jobs \in Orderings(r.jobs) :
                      batch_jobs' = batches_of(jobs, async_data)
               /\ cursor' = [b |-> 1, i |-> 0]
               /\ resolved' = <<>>
               /\ num_failed' = 0
               /\ pc' = "resolving"
               /\ UNCHANGED error
          ELSE /\ error' = r.outcome
               /\ pc' = "raised"
               /\ UNCHANGED <<batch_jobs, cursor, resolved, num_failed>>
    /\ warnings' = 0
    /\ UNCHANGED <<experiments, asynchronous, backend, circuits, keys, batch_size, batches,
                   gen_pos, data, async_data, table>>
    /\ UNCHANGED <<statuses, status_calls, columns, returned>>

\* fetch_statuses on the asynchronous result
FetchStatuses ==
    /\ pc = "async_returned"
    /\ status_calls < MaxStatusCalls
    /\ LET r == fetch_statuses(get_backend(backend), async_data)
       IN IF r.outcome = "ok"
          THEN /\ statuses' = r.statuses
               /\ backend' = r.backend
               /\ status_calls' = status_calls + 1
               /\ UNCHANGED <<pc, error>>
          ELSE /\ error' = r.outcome
               /\ pc' = "raised"
               /\ UNCHANGED <<statuses, backend, status_calls>>
    /\ UNCHANGED <<experiments, asynchronous, circuits, keys, batch_size, batches,
                   gen_pos, batch_jobs, cursor, resolved, num_failed, warnings, data,
                   async_data, table, columns, returned>>

\* MockProvider.reset_caches between the asynchronous run and the calls that read its
\* result
ResetCaches ==
    /\ pc = "async_returned"
    /\ backend.type = "mock"
    /\ backend.instance < MaxResets
    /\ backend' = reset_caches(backend)
    /\ UNCHANGED <<pc, experiments, asynchronous, circuits, keys, batch_size, batches,
                   gen_pos, batch_jobs, cursor, resolved, num_failed, warnings, error, data,
                   async_data, table, statuses, status_calls, columns, returned>>

\* fetch_statuses handed the result of a synchronous run
FetchStatusesOnSync ==
    /\ pc = "resolved"
    /\ ~asynchronous
    /\ LET r == fetch_statuses(backend, data)
       IN /\ backend' = r.backend
          /\ IF r.outcome = "ok"
             THEN /\ statuses' = r.statuses
                  /\ pc' = "statuses_returned"
                  /\ UNCHANGED error
             ELSE /\ error' = r.outcome
                  /\ pc' = "raised"
                  /\ UNCHANGED statuses
    /\ UNCHANGED <<experiments, asynchronous, circuits, keys, batch_size, batches, gen_pos,
                   batch_jobs, cursor, resolved, num_failed, warnings, data, async_data,
                   table, status_calls, columns, returned>>

\* resolve_results handed the result of a synchronous run: without entries there is no
\* job to retrieve and no batch to resolve, and the empty result is returned
ResolveResultsOnSync ==
    /\ pc = "resolved"
    /\ ~asynchronous
    /\ IF job_ids(data).outcome = "ok"
       THEN /\ pc' = "resolved_again"
            /\ data' = single_results(<<>>)
            /\ UNCHANGED error
       ELSE /\ error' = job_ids(data).outcome
            /\ pc' = "raised"
            /\ UNCHANGED data
    /\ UNCHANGED <<experiments, asynchronous, backend, circuits, keys, batch_size, batches,
                   gen_pos, batch_jobs, cursor, resolved, num_failed, warnings, async_data,
                   table, statuses, status_calls, columns, returned>>

\* one iteration of the loop of _resolve_batches
ExtractResult ==
    /\ pc = "resolving"
    /\ cursor.b <= Len(batch_jobs)
    /\ LET bj == batch_jobs[cursor.b]
           key == bj.keys[cursor.i + 1]
           r == _extract_result_from_job(bj.job, key[1], key[2], cursor.i, key[3])
           s == record(resolved, num_failed, <<key[1], key[2], key[4]>>, r)
       IN \/ /\ r.outcome \in {"None", "result"}
             /\ resolved' = s.resolved
             /\ num_failed' = s.num_failed
             /\ cursor' = iter_next(cursor, Len(bj.keys))
             /\ UNCHANGED <<error, pc>>
          \/ /\ r.outcome \notin {"None", "result"}
             /\ error' = r.outcome
             /\ pc' = "raised"
             /\ UNCHANGED <<resolved, num_failed, cursor>>
    /\ UNCHANGED <<experiments, asynchronous, backend, circuits, keys, batch_size, batches,
                   gen_pos, batch_jobs, warnings, data, async_data, table>>
    /\ UNCHANGED <<statuses, status_calls, columns, returned>>

\* the end of _resolve_batches: the warning and the returned list
FinishResolve ==
    /\ pc = "resolving"
    /\ cursor.b > Len(batch_jobs)
    /\ asynchronous \/ gen_pos = Len(batches)
    /\ warnings' = warnings + resolve_warnings(num_failed)
    /\ data' = single_results(resolved)
    /\ returned' = IF asynchronous THEN Append(returned, data') ELSE returned
    /\ pc' = "resolved"
    /\ UNCHANGED <<experiments, asynchronous, backend, circuits, keys, batch_size, batches,
                   gen_pos, batch_jobs, cursor, resolved, num_failed, error, async_data,
                   table>>
    /\ UNCHANGED <<statuses, status_calls, columns>>

\* FourierExperimentSet(**description): the validated experiment set, or ValidationError
ParseExperimentSet ==
    /\ pc = "parse_call"
    /\ IF parse_obj(experiments) = "ok"
       THEN pc' = "validated" /\ UNCHANGED error
       ELSE pc' = "raised" /\ error' = parse_obj(experiments)
    /\ UNCHANGED <<experiments, asynchronous, backend, circuits, keys, batch_size, batches,
                   gen_pos, batch_jobs, cursor, resolved, num_failed, warnings, data,
                   async_data, table, statuses, status_calls, columns, returned>>

\* _collect_circuits_and_keys on a validated experiment set
CollectCircuitsAndKeys ==
    /\ pc = "validated"
    /\ circuits' = _collect_circuits_and_keys(experiments).circuits
    /\ keys' = _collect_circuits_and_keys(experiments).keys
    /\ pc' = "collected"
    /\ UNCHANGED <<experiments, asynchronous, backend, batch_size, batches, gen_pos,
                   batch_jobs, cursor, resolved, num_failed, warnings, error, data,
                   async_data, table, statuses, status_calls, columns, returned>>

\* tabulate_results on a synchronous result: the one run_experiment or resolve_results
\* returned, or one handed in directly
TabulateResults ==
    /\ pc \in {"resolved", "tabulate_call"}
    /\ LET t == tabulate_results(experiments.method, data)
       IN IF t.outcome = "ok"
          THEN /\ table' = t.rows
               /\ columns' = t.columns
               /\ pc' = "tabulated"
               /\ UNCHANGED error
          ELSE /\ error' = t.outcome
               /\ pc' = "raised"
               /\ UNCHANGED <<table, columns>>
    /\ UNCHANGED <<experiments, asynchronous, backend, circuits, keys, batch_size, batches,
                   gen_pos, batch_jobs, cursor, resolved, num_failed, warnings, data,
                   async_data>>
    /\ UNCHANGED <<statuses, status_calls, returned>>

Next ==
    \/ RunExperiment
    \/ NextBatchJob
    \/ ReturnAsync
    \/ ResolveResults
    \/ FetchStatuses
    \/ ResetCaches
    \/ FetchStatusesOnSync
    \/ ResolveResultsOnSync
    \/ ExtractResult
    \/ FinishResolve
    \/ TabulateResults

Spec == Init /\ [][Next]_vars

NextBatching ==
    \/ BatchCircuitsWithKeys
    \/ ExecuteInBatches
    \/ NextBatchJob

SpecBatching == InitBatching /\ [][NextBatching]_vars

NextTabulate == TabulateResults

NextModels ==
    \/ ParseExperimentSet
    \/ CollectCircuitsAndKeys

SpecModels == InitModels /\ [][NextModels]_vars

SpecTabulate == InitTabulate /\ [][NextTabulate]_vars

\* ---------------------------------------------------------------- claims on batching
\* the batching call has returned
Batched == pc \in {"batched", "iterating"}

BatchSizes == [j \in DOMAIN batches |-> Len(batches[j].circuits)]

\* C1: for n = len(circuits) = len(keys) >= 0 and batch size k >= 1 the call returns
\* ceil(n/k) batches (the least m with m*k >= n), every batch but the last holds exactly
\* k items, the last holds between 1 and k, and the sizes sum to n
C1_BatchCountAndSizes ==
    (Batched /\ batch_size /= None /\ batch_size >= 1) =>
        LET n == Len(circuits)
            k == batch_size
            m == Len(batches)
        IN /\ m * k >= n
           /\ m = 0 \/ (m - 1) * k < n
           /\ n = 0 => m = 0
           /\ \A j \in 1..m : Len(batches[j].keys) = Len(batches[j].circuits)
           /\ \A j \in 1..(m - 1) : BatchSizes[j] = k
           /\ m >= 1 => (BatchSizes[m] >= 1 /\ BatchSizes[m] <= k)
           /\ SumLen([j \in 1..m |-> batches[j].circuits]) = n
           /\ SumLen([j \in 1..m |-> batches[j].keys]) = n

\* five circuits in batches of two: sizes 2, 2, 1
C1_Witness ==
    /\ pc = "batched"
    /\ batch_size = 2
    /\ Len(circuits) = 5
    /\ BatchSizes = <<2, 2, 1>>

\* C2: for any batch size (k >= 1 or None) each batch has as many keys as circuits, the key
\* at position j of a batch is the key the input paired with the circuit at that position,
\* every input pair is in exactly one batch, and the batches concatenate to the input
C2_CorrespondencePreserved ==
    (Batched /\ (batch_size = None \/ batch_size >= 1)) =>
        /\ \A b \in DOMAIN batches :
              /\ Len(batches[b].circuits) = Len(batches[b].keys)
              /\ \A j \in DOMAIN batches[b].circuits :
                    batches[b].keys[j] = keys[batches[b].circuits[j]]
        /\ \A p \in DOMAIN circuits :
              Cardinality({<<b, j>> \in (DOMAIN batches) \X (1..Len(circuits)) :
                              /\ j <= Len(batches[b].circuits)
                              /\ batches[b].circuits[j] = circuits[p]}) = 1
        /\ Flatten([b \in DOMAIN batches |-> batches[b].circuits]) = circuits
        /\ Flatten([b \in DOMAIN batches |-> batches[b].keys]) = keys

\* several batches whose keys differ from one batch to the next
C2_Witness ==
    /\ pc = "batched"
    /\ Len(batches) >= 2
    /\ batches[1].keys /= batches[2].keys
    /\ Len(batches[2].keys) = Len(batches[1].keys)

\* C3: with max_circuits_per_batch = None the call returns exactly one batch holding all
\* items in input order (one empty batch for n = 0), and for n = 0 the call does not raise
\* whether the batch size is None or k >= 1
C3_NoneGivesOneBatch ==
    /\ (Batched /\ batch_size = None) =>
          /\ Len(batches) = 1
          /\ batches[1].circuits = circuits
          /\ batches[1].keys = keys
    /\ (pc /= "call" /\ Len(circuits) = 0 /\ (batch_size = None \/ batch_size >= 1)) =>
          /\ error = "none"
          /\ Batched
          /\ Len(batches) = (IF batch_size = None THEN 1 ELSE 0)

\* no circuits and no batch size: one empty batch
C3_Witness ==
    /\ pc = "batched"
    /\ batch_size = None
    /\ Len(circuits) = 0
    /\ batches = <<[circuits |-> <<>>, keys |-> <<>>]>>

\* the partition execute_in_batches is specified to submit
Partition == batch_circuits_with_keys(circuits, keys, batch_size).batches

\* C4: the BatchJobs produced so far are one per consumed batch, in batch order, each with
\* the batch's keys and a job of one backend.run call on the batch's circuits; once the
\* iterable is exhausted the (job, index) slots are in bijection with the input keys and
\* no job holds more than batch_size circuits
C4_OneBatchJobPerBatch ==
    (pc = "iterating") =>
        /\ Len(batch_jobs) = gen_pos
        /\ backend.job_count = gen_pos
        /\ Len(backend.job_dict) = gen_pos
        /\ \A j \in DOMAIN batch_jobs :
              /\ batch_jobs[j].keys = Partition[j].keys
              /\ batch_jobs[j].job.circuits = Partition[j].circuits
              /\ batch_jobs[j].job = backend.job_dict[j]
              /\ batch_jobs[j].job.job_id = <<backend.instance, j>>
              /\ batch_size /= None => Len(batch_jobs[j].job.circuits) <= batch_size
        /\ gen_pos = Len(batches) =>
              /\ Len(batch_jobs) = Len(Partition)
              /\ Flatten([j \in DOMAIN batch_jobs |-> batch_jobs[j].keys]) = keys
              /\ Flatten([j \in DOMAIN batch_jobs |-> batch_jobs[j].job.circuits]) = circuits

\* five circuits in batches of two, all three jobs submitted
C4_Witness ==
    /\ pc = "iterating"
    /\ gen_pos = Len(batches)
    /\ Len(circuits) = 5
    /\ batch_size = 2
    /\ Len(batch_jobs) = 3

\* ---------------------------------------------------------------- claims on resolution
\* run_experiment raised before it submitted anything
RunRaised == pc = "raised" /\ error = "NotImplementedError"

\* reset_caches was called after the jobs were submitted: the backend at hand is not
\* the one that issued the job ids, and retrieving them raises before any is resolved
CachesReset == backend.instance /= 0

\* _resolve_batches has been entered
ResolveStarted ==
    /\ pc \in {"resolving", "resolved", "tabulated", "statuses_returned", "resolved_again",
               "raised"}
    /\ ~RunRaised
    /\ ~CachesReset

\* an exception left _resolve_batches while it was processing an item
ResolveRaised ==
    pc = "raised" /\ ~RunRaised /\ ~CachesReset /\ cursor.b <= Len(batch_jobs)

\* _resolve_batches has returned its list
ResolveReturned ==
    \/ pc \in {"resolved", "tabulated", "statuses_returned", "resolved_again"}
    \/ pc = "raised" /\ ~RunRaised /\ ~CachesReset /\ cursor.b > Len(batch_jobs)

\* item i (0-based) of BatchJob b has been handed to _extract_result_from_job
ItemProcessed(b, i) ==
    /\ ResolveStarted
    /\ \/ b < cursor.b
       \/ b = cursor.b /\ i < cursor.i
       \/ ResolveRaised /\ b = cursor.b /\ i = cursor.i

\* the places of resolved that hold a result recorded under a key
Slots(key) ==
    UNION {{<<j, r>> : r \in {q \in DOMAIN resolved[j].results :
                                resolved[j].results[q].name = key[3]}} :
              j \in {h \in DOMAIN resolved : resolved[h].label = <<key[1], key[2], key[4]>>}}

ResultCount(entries) ==
    SumLen([j \in DOMAIN entries |-> entries[j].results_per_circuit])

\* number of keys held by the failed jobs among the BatchJobs
FailedKeyCount ==
    SumLen([j \in DOMAIN batch_jobs |->
               IF batch_jobs[j].job.failed THEN batch_jobs[j].keys ELSE <<>>])

\* C5: for every BatchJob with one or more keys and every index i, once item i of a
\* successful job has been processed, a histogram is recorded under keys[i] and it is
\* the i-th result of that job (the outcome of the i-th circuit submitted in it)
C5_IthResultUnderIthKey ==
    \A b \in DOMAIN batch_jobs :
        \A i \in 0..(Len(batch_jobs[b].keys) - 1) :
            (ItemProcessed(b, i) /\ ~batch_jobs[b].job.failed) =>
                /\ Slots(batch_jobs[b].keys[i + 1]) /= {}
                /\ \A s \in Slots(batch_jobs[b].keys[i + 1]) :
                      resolved[s[1]].results[s[2]].histogram
                         = Hist(batch_jobs[b].job.circuits[i + 1])

\* C6: when reading an item's histogram raises the execution-failure error, the step
\* stores nothing for the item, adds one to the failure counter and moves on to the next
\* item of the batch or to the next batch; the error never leaves resolve, and a resolve
\* that returns has handled every key as either a result or a counted failure
C6_FailureIsolated ==
    /\ [](error /= "QiskitError")
    /\ [](ResolveReturned =>
            /\ num_failed = FailedKeyCount
            /\ num_failed + ResultCount(single_results(resolved)) = Len(keys))
    /\ [][(/\ pc = "resolving"
           /\ cursor.b <= Len(batch_jobs)
           /\ batch_jobs[cursor.b].job.failed)
          => /\ resolved' = resolved
             /\ num_failed' = num_failed + 1
             /\ pc' = "resolving"
             /\ error' = "none"
             /\ cursor' = IF cursor.i + 1 < Len(batch_jobs[cursor.b].keys)
                          THEN [b |-> cursor.b, i |-> cursor.i + 1]
                          ELSE [b |-> cursor.b + 1, i |-> 0]]_vars

\* the first job failed, its items were counted, and later items were still resolved
C6_Witness ==
    /\ pc = "resolved"
    /\ Len(batch_jobs) >= 2
    /\ batch_jobs[1].job.failed
    /\ num_failed = Len(batch_jobs[1].keys)
    /\ num_failed >= 2
    /\ ResultCount(data) = Len(keys) - num_failed
    /\ ResultCount(data) > 0

\* one batch of two items whose job failed
C7_Scenario ==
    /\ Len(keys) = 2
    /\ Len(batch_jobs) = 1
    /\ Len(batch_jobs[1].keys) = 2
    /\ batch_jobs[1].job.failed

\* C7 as stated: resolving one batch of 2 items whose job execution fails yields exactly
\* one result, for the key of item 0, and one warning
C7_Original ==
    (pc = "resolved" /\ C7_Scenario) =>
        /\ ResultCount(data) = 1
        /\ Len(data) = 1
        /\ <<data[1].target, data[1].ancilla, data[1].results_per_circuit[1].name,
             data[1].phi>> = keys[1]
        /\ warnings = 1

\* C7 amended: resolving one batch of 2 items whose job execution fails does not raise,
\* yields no result (both items are dropped and counted) and logs exactly one warning
C7_BothItemsDropped ==
    (ResolveStarted /\ C7_Scenario) =>
        /\ ~ResolveRaised
        /\ ResolveReturned =>
              /\ data = <<>>
              /\ num_failed = 2
              /\ warnings = 1

C7_Witness ==
    /\ pc = "resolved"
    /\ C7_Scenario
    /\ num_failed = 2
    /\ warnings = 1

\* the instance of test_main_entrypoint_with_disc_fourier_command_and_failing_backend
TestedInstance ==
    /\ backend.type = "mock"
    /\ backend.fail_job_indices = {1, 2}
    /\ Len(experiments.qubits) = 3
    /\ experiments.num_steps = 3
    /\ experiments.method = "direct_sum"

\* C8: for any set of failed jobs, resolve_results returns as many results as there are
\* submitted keys minus the keys of the failed jobs, each key of a job that did not fail
\* exactly once; in the tested instance 14 results, one warning and 7 tabulated rows
C8_ResultCountMatchesFailedJobs ==
    asynchronous =>
        /\ ~ResolveRaised
        /\ ResolveReturned =>
              /\ ResultCount(data) = Len(keys) - FailedKeyCount
              /\ \A b \in DOMAIN batch_jobs :
                    ~batch_jobs[b].job.failed =>
                        \A j \in DOMAIN batch_jobs[b].keys :
                            Cardinality(Slots(batch_jobs[b].keys[j])) = 1
        /\ (ResolveReturned /\ TestedInstance) =>
              /\ ResultCount(data) = 14
              /\ warnings = 1
        /\ (pc = "tabulated" /\ TestedInstance) => Len(table) = 7

\* C9: a call of resolve logs exactly one warning if at least one item failed and none
\* if no item failed, and the warning is logged only after all batches were processed
C9_OneWarningIffFailure ==
    /\ (ResolveReturned \/ ResolveRaised) =>
          warnings = (IF num_failed > 0 THEN 1 ELSE 0)
    /\ warnings > 0 => ResolveReturned

\* no job of the run fails
NoJobFails == \A idx \in backend.fail_job_indices : idx >= Len(batches)

\* the keys whose identity is (target, ancilla, phi)
KeysOf(target, ancilla, phi) ==
    {p \in DOMAIN keys : <<keys[p][1], keys[p][2], keys[p][4]>> = <<target, ancilla, phi>>}

\* C10: when no item fails, resolve returns exactly one entry per (target, ancilla, phi)
\* of the keys, the entries are the labels enumerated by the experiment set without
\* duplicates, and each entry holds exactly one result per key of its identity, under
\* that key's circuit name
C10_OneEntryPerLabel ==
    (ResolveStarted /\ NoJobFails) =>
        /\ ~ResolveRaised
        /\ ResolveReturned =>
              LET labels == [j \in DOMAIN data |->
                                <<data[j].target, data[j].ancilla, data[j].phi>>]
              IN /\ Range(labels) = Range(enumerate_experiment_labels(experiments))
                 /\ Cardinality(Range(labels)) = Len(labels)
                 /\ \A j \in DOMAIN data :
                       LET ks == KeysOf(data[j].target, data[j].ancilla, data[j].phi)
                           rs == data[j].results_per_circuit
                       IN /\ Len(rs) = Cardinality(ks)
                          /\ \A p \in ks :
                                Cardinality({r \in DOMAIN rs : rs[r].name = keys[p][3]}) = 1

\* an identity of which at least one key belongs to a job that did not fail
Surviving(label) ==
    \E b \in DOMAIN batch_jobs : \E j \in DOMAIN batch_jobs[b].keys :
        /\ ~batch_jobs[b].job.failed
        /\ <<batch_jobs[b].keys[j][1], batch_jobs[b].keys[j][2], batch_jobs[b].keys[j][4]>>
              = label

\* the identities of the entries of a result list, in order
LabelsOf(entries) ==
    [j \in DOMAIN entries |-> <<entries[j].target, entries[j].ancilla, entries[j].phi>>]

\* C11 as stated: after resolve, an identity enumerated in the keys that has no surviving
\* result is in the returned list as a record with an empty results_per_circuit
C11_Original ==
    ResolveReturned =>
        \A label \in Range(enumerate_experiment_labels(experiments)) :
            ~Surviving(label) =>
                \E j \in DOMAIN data :
                    /\ LabelsOf(data)[j] = label
                    /\ data[j].results_per_circuit = <<>>

\* C11 amended: after resolve, an identity enumerated in the keys that has no surviving
\* result is absent from the returned list; the list holds exactly the identities with
\* a surviving result, and every record of it holds at least one result
C11_FailedIdentityAbsent ==
    ResolveReturned =>
        /\ \A label \in Range(enumerate_experiment_labels(experiments)) :
              label \in Range(LabelsOf(data)) <=> Surviving(label)
        /\ \A j \in DOMAIN data : data[j].results_per_circuit /= <<>>

\* a resolve that returned entries although every key of some identity failed
C11_Witness ==
    /\ pc = "resolved"
    /\ data /= <<>>
    /\ num_failed > 0
    /\ \E label \in Range(enumerate_experiment_labels(experiments)) :
          /\ ~Surviving(label)
          /\ label \notin Range(LabelsOf(data))

\* the list _resolve_batches returns for one job that ran all the circuits, items
\* from..Len(ks)-1 still to be processed
RECURSIVE resolve_one_job(_, _, _, _)
resolve_one_job(job, ks, res, from) ==
    IF from >= Len(ks) THEN single_results(res)
    ELSE LET key == ks[from + 1]
             r == _extract_result_from_job(job, key[1], key[2], from, key[3])
         IN resolve_one_job(job, ks,
                            record(res, 0, <<key[1], key[2], key[4]>>, r).resolved,
                            from + 1)

\* the data of the synchronous path with no batching on a backend whose jobs all
\* succeed: one job holds every circuit
SyncUnbatched ==
    LET bk == [backend EXCEPT !.fail_job_indices = {}, !.job_count = 0, !.job_dict = <<>>]
    IN resolve_one_job(run(bk, circuits).job, keys, <<>>, 0)

\* C12: when all jobs succeed, submitting the work items asynchronously in batches of at
\* most max_circuits and then calling resolve_results gives the same entries, with the
\* same histogram under every key, as the synchronous path gives with no batching
C12_AsyncBatchedEqualsSyncUnbatched ==
    (asynchronous /\ NoJobFails /\ ResolveStarted) =>
        /\ ~ResolveRaised
        /\ ResolveReturned => data = SyncUnbatched

\* ---------------------------------------------------------------- claims on statuses
RECURSIVE SumCounts(_)
SumCounts(tally) ==
    IF tally = {} THEN 0
    ELSE LET e == CHOOSE x \in tally : TRUE IN e[2] + SumCounts(tally \ {e})

\* C13: fetch_statuses over an asynchronous result of m BatchResult entries returns a
\* mapping from status name to count whose counts sum to m, whatever the statuses of
\* the jobs (failed ones included); each name is listed once with the number of entries
\* whose job has that status, and for m = 0 the mapping is empty
C13_StatusCountsSumToEntries ==
    /\ (status_calls > 0 /\ pc = "async_returned" /\ ~CachesReset) =>
          /\ SumCounts(statuses) = Len(async_data)
          /\ \A e \in statuses :
                /\ e[2] = Cardinality({j \in DOMAIN async_data :
                               status(retrieve_job(backend, async_data[j].job_id).job) = e[1]})
                /\ e[2] > 0
          /\ \A e, f \in statuses : e[1] = f[1] => e = f
    /\ fetch_statuses(backend, <<>>).outcome = "ok"
    /\ SumCounts(fetch_statuses(backend, <<>>).statuses) = 0

\* a tally over jobs of which some failed and at least two did not
C13_Witness ==
    /\ status_calls > 0
    /\ \E d \in 2..Len(async_data) : <<"DONE", d>> \in statuses
    /\ \E e \in 1..Len(async_data) : <<"ERROR", e>> \in statuses

\* C14: fetch_statuses only tallies: a call submits no job and leaves the job store, the
\* submission counter, the jobs (and so their statuses) and the asynchronous result as they
\* were, so the BatchJobs resolve_results rebuilds after any number of calls are the jobs
\* that were submitted, with their keys
C14_FetchStatusesHasNoEffect ==
    /\ [][status_calls' /= status_calls =>
            /\ status_calls' = status_calls + 1
            /\ UNCHANGED <<pc, experiments, asynchronous, backend, circuits, keys,
                           batch_size, batches, gen_pos, batch_jobs, cursor, resolved,
                           num_failed, warnings, error, data, async_data, table>>]_vars
    /\ []((/\ asynchronous
            /\ pc \in {"async_returned", "resolving", "resolved", "tabulated"}
            /\ ~CachesReset) =>
            /\ backend.job_count = Len(batches)
            /\ Len(backend.job_dict) = Len(batches)
            /\ Len(async_data) = Len(batches)
            /\ \A j \in DOMAIN async_data :
                  /\ async_data[j].job_id = <<backend.instance, j>>
                  /\ async_data[j].keys = batches[j].keys
                  /\ backend.job_dict[j].circuits = batches[j].circuits
                  /\ backend.job_dict[j].failed = ((j - 1) \in backend.fail_job_indices)
            /\ pc /= "async_returned" =>
                  batch_jobs = [j \in DOMAIN async_data |->
                                   [job |-> backend.job_dict[j], keys |-> batches[j].keys]])

\* results resolved after fetch_statuses was called twice
C14_Witness ==
    /\ pc = "resolved"
    /\ asynchronous
    /\ status_calls >= 2
    /\ data /= <<>>
    /\ num_failed > 0

\* fetch_statuses or resolve_results was called on the result of a synchronous run and
\* the call has ended
OnSyncEnded ==
    \/ pc \in {"statuses_returned", "resolved_again"}
    \/ pc = "raised" /\ error = "AttributeError"

\* C15: fetch_statuses and resolve_results called on a result object produced by a
\* synchronous run end with an error; they never return an empty or default answer
C15_SyncResultRejected ==
    OnSyncEnded =>
        /\ pc = "raised"
        /\ error /= "none"

\* ---------------------------------------------------------------- claims on tabulation
\* a call of tabulate_results has ended
TabulateEnded ==
    \/ pc = "tabulated"
    \/ /\ pc = "raised"
       /\ error \in {"TypeError", "IndexError", "ValueError"}
       /\ ResolveReturned

\* the entry holds one result for each circuit name of the method
Complete(entry) ==
    /\ Len(entry.results_per_circuit) = Len(circuit_names(experiments.method))
    /\ {entry.results_per_circuit[r].name : r \in DOMAIN entry.results_per_circuit}
          = Range(circuit_names(experiments.method))

\* the identities of the rows of the table, in order
RowLabels == [j \in DOMAIN table |-> <<table[j][1], table[j][2], table[j][3]>>]

\* C16: tabulate_results does not raise because of identities without any result: when
\* every item of some identity failed and the other identities kept all their items (the
\* run in which every item failed included), the table is returned and has the rows of
\* the identities that are left
C16_TabulateSurvivesFailedIdentities ==
    (/\ TabulateEnded
     /\ \E label \in Range(enumerate_experiment_labels(experiments)) : ~Surviving(label)
     /\ \A j \in DOMAIN data : Complete(data[j])) =>
        /\ pc = "tabulated"
        /\ RowLabels = LabelsOf(data)

\* C17: for every result resolve produced, entries with fewer results than circuit names
\* included, tabulate_results returns one row per entry, in entry order, with the
\* entry's target, ancilla and phi
C17_OneRowPerEntry ==
    TabulateEnded =>
        /\ pc = "tabulated"
        /\ Len(table) = Len(data)
        /\ RowLabels = LabelsOf(data)

\* every result of the entry carries mitigation data
Mitigated(entry) ==
    \A r \in DOMAIN entry.results_per_circuit : entry.results_per_circuit[r].mitigated

\* C18: for a result with entries that hold all their circuits, the table has the columns
\* target, ancilla, phi, disc_prob when no result carries mitigation data, also the column
\* mit_disc_prob when every result carries it, and when some entries carry it and others
\* do not the call raises an error instead of returning a table
C18_ColumnsFollowMitigation ==
    (TabulateEnded /\ data /= <<>> /\ \A j \in DOMAIN data : Complete(data[j])) =>
        /\ (\A j \in DOMAIN data : ~Mitigated(data[j])) =>
              /\ pc = "tabulated"
              /\ columns = <<"target", "ancilla", "phi", "disc_prob">>
        /\ (\A j \in DOMAIN data : Mitigated(data[j])) =>
              /\ pc = "tabulated"
              /\ columns = <<"target", "ancilla", "phi", "disc_prob", "mit_disc_prob">>
        /\ (\E j, h \in DOMAIN data : Mitigated(data[j]) /\ ~Mitigated(data[h])) =>
              pc = "raised"

\* ---------------------------------------------------------------- claims on limits
\* the backend is an AWS Braket backend none of whose rules applies
UnknownAwsDevice ==
    /\ backend.type = "aws"
    /\ lower(backend.name) /= <<"l", "u", "c", "y">>
    /\ ~startswith(lower(backend.name), <<"a", "s", "p", "e", "n">>)
    /\ ~backend.summary_simulator

\* C19: for a backend type without a registered rule get_limits returns the unconstrained
\* limits (max_circuits = None, max_shots = None); for an AWS Braket backend whose name is
\* neither lucy nor aspen-prefixed and whose summary mentions no simulator it raises, so
\* run_experiment ends with that error before any job is submitted
C19_DefaultLimitsAndUnknownAwsRaises ==
    /\ (\A j \in DOMAIN mro(backend.type) :
           mro(backend.type)[j] \notin {"aws", "ibmq", "aer", "mock"}) =>
          get_limits(backend) = Limits(None, None)
    /\ UnknownAwsDevice =>
          /\ get_limits(backend).outcome = "NotImplementedError"
          /\ pc /= "start" =>
                /\ pc = "raised"
                /\ error = "NotImplementedError"
                /\ backend.job_count = 0
                /\ batch_jobs = <<>>
                /\ batches = <<>>
    /\ (backend.type = "aws" /\ ~UnknownAwsDevice) =>
          /\ get_limits(backend).outcome = "ok"
          /\ get_limits(backend).max_circuits = None
          /\ get_limits(backend).max_shots \in {LucyMaxShots, AspenMaxShots, SimulatorMaxShots}

\* run_experiment on an unknown AWS device has raised
C19_Witness ==
    /\ UnknownAwsDevice
    /\ pc = "raised"
    /\ error = "NotImplementedError"
    /\ circuits /= <<>>

\* C20: get_limits applies the rule of the most specific type: max_circuits is None for a
\* plain AerSimulator and 2 for a MockSimulator, max_shots is the backend configuration's
\* max_shots for both; so every job run_experiment submits on a mock backend holds at
\* most 2 circuits
C20_MostSpecificRuleApplies ==
    /\ backend.type = "aer" =>
          get_limits(backend) = Limits(None, backend.max_shots)
    /\ backend.type = "mock" =>
          /\ get_limits(backend) = Limits(2, backend.max_shots)
          /\ backend.max_shots = configuration_max_shots("aer")
          /\ pc /= "start" => batch_size = 2
          /\ \A j \in DOMAIN backend.job_dict : Len(backend.job_dict[j].circuits) <= 2
          /\ \A j \in DOMAIN batch_jobs : Len(batch_jobs[j].job.circuits) <= 2

\* a mock backend that has run every job of an experiment set of more than 2 circuits
C20_Witness ==
    /\ backend.type = "mock"
    /\ pc = "resolved"
    /\ Len(circuits) > 2
    /\ backend.job_count * 2 = Len(circuits)
    /\ \A j \in DOMAIN backend.job_dict : Len(backend.job_dict[j].circuits) = 2

\* ---------------------------------------------------------------- claims on retrieval
\* C21: retrieve_jobs returns one job per requested id, and resolve_results pairs the
\* keys of each BatchResult with the job whose job_id is the entry's job_id, so the
\* BatchJobs handed to _resolve_batches (and with them the resolved output) are the same
\* for every order in which retrieve_jobs returns the jobs
C21_PairingByJobId ==
    /\ (pc = "async_returned" /\ ~CachesReset) =>
          LET r == retrieve_jobs(get_backend(backend), job_ids(async_data).ids)
          IN /\ r.outcome = "ok"
             /\ Len(r.jobs) = Len(async_data)
             /\ \A j \in DOMAIN r.jobs : r.jobs[j].job_id = async_data[j].job_id
             /\ \A jobs \in Orderings(r.jobs) :
                   /\ batches_of(jobs, async_data) = batches_of(r.jobs, async_data)
                   /\ \A j \in DOMAIN async_data :
                         /\ batches_of(jobs, async_data)[j].job.job_id = async_data[j].job_id
                         /\ batches_of(jobs, async_data)[j].keys = async_data[j].keys
    /\ (asynchronous /\ pc \in {"resolving", "resolved"}) =>
          /\ Len(batch_jobs) = Len(async_data)
          /\ \A j \in DOMAIN batch_jobs :
                /\ batch_jobs[j].job.job_id = async_data[j].job_id
                /\ batch_jobs[j].keys = async_data[j].keys
                /\ batch_jobs[j].job.circuits = batches[j].circuits

\* a resolved asynchronous result of three jobs, of which the second failed: the three
\* orders of retrieval differ
C21_Witness ==
    /\ pc = "resolved"
    /\ asynchronous
    /\ Len(async_data) = 3
    /\ batch_jobs[2].job.failed
    /\ data /= <<>>

\* C22: between two calls of reset_caches every MockProvider hands out the same backend
\* object for a name, so after any number of run calls retrieve_job(id) on the backend
\* got from any provider returns exactly the job that run returned for that id
C22_SharedBackendRetrievesRunJobs ==
    (/\ backend.type = "mock"
     /\ ~CachesReset
     /\ \/ pc \in {"submitting", "async_returned"}
        \/ pc = "resolving" /\ ~asynchronous) =>
        /\ get_backend(backend) = backend
        /\ Len(batch_jobs) = backend.job_count
        /\ \A j \in DOMAIN batch_jobs :
              /\ retrieve_job(get_backend(backend), batch_jobs[j].job.job_id).outcome = "ok"
              /\ retrieve_job(get_backend(backend), batch_jobs[j].job.job_id).job
                     = batch_jobs[j].job
        /\ \A i, j \in DOMAIN batch_jobs :
              batch_jobs[i].job.job_id = batch_jobs[j].job.job_id => i = j

\* three jobs were run, one of them made to fail, and none has been resolved
C22_Witness ==
    /\ backend.type = "mock"
    /\ pc = "async_returned"
    /\ ~CachesReset
    /\ Len(batch_jobs) = 3
    /\ batch_jobs[2].job.failed
    /\ ~batch_jobs[3].job.failed

\* C23: a MockSimulator fails exactly the jobs whose 0-based submission index, counted
\* over the lifetime of the backend object, is in fail_job_indices: those jobs report
\* ERROR and raise on result(), every other job reports DONE and gives its result; every
\* run call increases the submission index by exactly one, and a backend made after
\* reset_caches counts from 0 again
C23_FailsExactlyListedSubmissions ==
    /\ []((backend.type = "mock") =>
            /\ backend.job_count = Len(backend.job_dict)
            /\ \A j \in DOMAIN backend.job_dict :
                  LET job == backend.job_dict[j]
                  IN /\ job.job_id = <<backend.instance, j>>
                     /\ job.failed <=> (j - 1) \in backend.fail_job_indices
                     /\ job.failed =>
                           status(job) = "ERROR" /\ job_result(job).outcome = "QiskitError"
                     /\ ~job.failed =>
                           /\ status(job) = "DONE"
                           /\ job_result(job).outcome = "ok")
    /\ [][(backend.type = "mock" /\ backend' /= backend) =>
             \/ /\ backend'.instance = backend.instance
                /\ backend'.job_count = backend.job_count + 1
                /\ SubSeq(backend'.job_dict, 1, backend.job_count) = backend.job_dict
             \/ /\ backend'.instance /= backend.instance
                /\ backend'.job_count = 0]_vars

\* the backend of test_failing_backend (fail_job_indices = {1, 2}) after four run calls
C23_Witness ==
    /\ backend.type = "mock"
    /\ backend.fail_job_indices = {1, 2}
    /\ backend.job_count = 4
    /\ ~backend.job_dict[1].failed
    /\ backend.job_dict[2].failed
    /\ backend.job_dict[3].failed
    /\ ~backend.job_dict[4].failed

\* ---------------------------------------------------------------- claims on mitigation data
\* C24: when a job does not expose properties(), each of its items whose histogram was
\* read is resolved with its name and histogram, carries no mitigation info and no
\* mitigated histogram, is not counted as a failure and causes no warning
C24_NoPropertiesStillResolved ==
    /\ [][(/\ pc = "resolving"
           /\ cursor.b <= Len(batch_jobs)
           /\ ~batch_jobs[cursor.b].job.failed
           /\ ~batch_jobs[cursor.b].job.properties
           /\ pc' /= "raised")
          => LET key == batch_jobs[cursor.b].keys[cursor.i + 1]
                 new == {j \in DOMAIN resolved' :
                            /\ resolved'[j].label = <<key[1], key[2], key[4]>>
                            /\ \/ j \notin DOMAIN resolved
                               \/ Len(resolved'[j].results) = Len(resolved[j].results) + 1}
             IN /\ num_failed' = num_failed
                /\ warnings' = warnings
                /\ Cardinality(new) = 1
                /\ \A j \in new :
                      LET res == resolved'[j].results[Len(resolved'[j].results)]
                      IN /\ res.name = key[3]
                         /\ res.histogram = Hist(batch_jobs[cursor.b].job.circuits[cursor.i + 1])
                         /\ ~res.mitigated
                /\ \A j \in DOMAIN resolved : j \notin new => resolved'[j] = resolved[j]]_vars
    /\ []((ResolveReturned /\ ~backend.mitigation) =>
            /\ \A j \in DOMAIN data : \A r \in DOMAIN data[j].results_per_circuit :
                  ~data[j].results_per_circuit[r].mitigated
            /\ FailedKeyCount = 0 => (num_failed = 0 /\ warnings = 0))

\* a run on a backend whose jobs have no properties(): eight or more results, no failure, no
\* warning
C24_Witness ==
    /\ pc = "resolved"
    /\ ~backend.mitigation
    /\ ResultCount(data) >= 8
    /\ num_failed = 0
    /\ warnings = 0

\* ---------------------------------------------------------------- claims on experiment sets
\* the description passes every validator
Validated(e) ==
    /\ \A j \in DOMAIN e.qubits : e.qubits[j][1] /= e.qubits[j][2]
    /\ \A i, j \in DOMAIN e.qubits : e.qubits[i] = e.qubits[j] => i = j
    /\ \/ e.start < e.stop
       \/ e.start = e.stop /\ e.num_steps = 1

InputAt(idx) ==
    LET V == Len(circuit_names(experiments.method))
        S == experiments.num_steps
    IN [qubits |-> experiments.qubits[(idx \div (S * V)) + 1],
        variant |-> circuit_names(experiments.method)[(idx % V) + 1],
        phi |-> linspace(experiments.start, experiments.stop, S)[((idx \div V) % S) + 1]]

\* C26: jobs are submitted one at a time in batch order: with n items and batch size k
\* the j-th (0-based) backend.run call carries exactly the items at input positions
\* j*k .. min((j+1)*k, n)-1 of the order qubit pair (outer), phi (middle), circuit variant
\* (inner); the submissions are a function of the experiment set and the batch size, so
\* two runs of one experiment set submit the same sequence
C26_SubmissionsInInputOrder ==
    /\ []((pc /= "start" /\ ~RunRaised /\ ~CachesReset) =>
            LET n == Len(circuits)
                k == IF batch_size = None THEN n ELSE batch_size
            IN /\ n = Len(experiments.qubits) * experiments.num_steps
                         * Len(circuit_names(experiments.method))
               /\ \A idx \in 0..(n - 1) : circuits[idx + 1] = InputAt(idx)
               /\ \A j \in 0..(backend.job_count - 1) :
                     /\ Len(backend.job_dict[j + 1].circuits) = Min((j + 1) * k, n) - j * k
                     /\ \A idx \in (j * k)..(Min((j + 1) * k, n) - 1) :
                           backend.job_dict[j + 1].circuits[idx - j * k + 1] = InputAt(idx)
               /\ backend.job_count * k < n + k)
    /\ [][(backend'.job_dict /= backend.job_dict /\ ~CachesReset') =>
             /\ Len(backend'.job_dict) = Len(backend.job_dict) + 1
             /\ SubSeq(backend'.job_dict, 1, Len(backend.job_dict)) = backend.job_dict]_vars

\* twelve circuits in batches of three, all four jobs submitted
C26_Witness ==
    /\ batch_size = 3
    /\ Len(circuits) = 12
    /\ backend.job_count = 4
    /\ Len(experiments.qubits) = 2
    /\ experiments.num_steps = 3

\* ---------------------------------------------------------------- claims on failed jobs
\* number of items of BatchJob b that _resolve_batches has dealt with and left behind
Handled(b) ==
    IF b < cursor.b THEN Len(batch_jobs[b].keys)
    ELSE IF b = cursor.b THEN cursor.i
    ELSE 0

\* C27: when a job fails outright each of its keys is counted as one failed item:
\* resolving that BatchJob adds len(keys) to the failure counter and none of its keys
\* yields a result, while the results of the other jobs are not affected
C27_FailedJobCountsEveryKey ==
    ResolveStarted =>
        /\ num_failed = SumLen([b \in DOMAIN batch_jobs |->
                                   IF batch_jobs[b].job.failed
                                   THEN SubSeq(batch_jobs[b].keys, 1, Handled(b))
                                   ELSE <<>>])
        /\ \A b \in DOMAIN batch_jobs :
              batch_jobs[b].job.failed =>
                 \A j \in DOMAIN batch_jobs[b].keys : Slots(batch_jobs[b].keys[j]) = {}
        /\ ResultCount(single_results(resolved))
              = SumLen([b \in DOMAIN batch_jobs |->
                           IF batch_jobs[b].job.failed
                           THEN <<>>
                           ELSE SubSeq(batch_jobs[b].keys, 1, Handled(b))])

\* resolve has returned; the second of three jobs of two items failed, the first and the
\* third gave their results
C27_Witness ==
    /\ pc = "resolved"
    /\ Len(batch_jobs) = 3
    /\ ~batch_jobs[1].job.failed
    /\ batch_jobs[2].job.failed
    /\ ~batch_jobs[3].job.failed
    /\ Len(batch_jobs[2].keys) = 2
    /\ num_failed = 2
    /\ ResultCount(data) = 4

\* C28: execute_in_batches submits nothing at call time; each batch is submitted exactly
\* once, when its BatchJob is pulled from the returned iterable, which can be consumed
\* once only.  So synchronous run_experiment submits batch j+1 only after every item of
\* batch j has been resolved, and asynchronous run_experiment submits all batches while
\* it reads job ids only and resolves no result
C28_SubmissionOnPull ==
    /\ [][pc = "start" => (backend' = backend /\ gen_pos' = 0 /\ batch_jobs' = <<>>)]_vars
    /\ []((pc /= "start" /\ ~RunRaised /\ ~CachesReset) =>
            /\ backend.job_count = gen_pos
            /\ gen_pos <= Len(batches)
            /\ \A j \in 1..gen_pos : backend.job_dict[j].circuits = batches[j].circuits)
    /\ [][/\ gen_pos' >= gen_pos
          /\ (backend'.job_dict /= backend.job_dict /\ ~CachesReset') =>
                (gen_pos' = gen_pos + 1 /\ backend'.job_count = backend.job_count + 1)]_vars
    /\ []((~asynchronous /\ pc = "resolving" /\ gen_pos >= 1) =>
            num_failed + ResultCount(single_results(resolved))
               >= SumLen([b \in 1..(gen_pos - 1) |-> batches[b].keys]))
    /\ []((asynchronous /\ pc \in {"submitting", "async_returned"}) =>
            /\ resolved = <<>>
            /\ num_failed = 0
            /\ data = <<>>
            /\ error = "none")
    /\ []((pc = "async_returned" /\ ~CachesReset) =>
            /\ gen_pos = Len(batches)
            /\ backend.job_count = Len(batches)
            /\ Len(async_data) = Len(batches))

\* a synchronous run in which the third batch has just been submitted: the four items of
\* the first two batches are resolved, none of the third is
C28_Witness ==
    /\ ~asynchronous
    /\ pc = "resolving"
    /\ gen_pos = 3
    /\ Len(batches) > 3
    /\ cursor = [b |-> 3, i |-> 0]
    /\ num_failed + ResultCount(single_results(resolved)) = 4

\* ---------------------------------------------------------------- claims on reset_caches
\* C29: after MockProvider.reset_caches() the backend get_backend returns is new: its job
\* store is empty and its submission counter is 0; fetch_statuses or resolve_results on
\* an asynchronous result whose job ids were issued before the reset raises for the
\* unknown job id and returns no partial data
C29_ResetForgetsJobs ==
    /\ [][backend'.instance /= backend.instance =>
             /\ get_backend(backend').job_dict = <<>>
             /\ get_backend(backend').job_count = 0
             /\ get_backend(backend').fail_job_indices = backend.fail_job_indices]_vars
    /\ []((CachesReset /\ pc = "async_returned") =>
            /\ backend.job_dict = <<>>
            /\ backend.job_count = 0
            /\ \A j \in DOMAIN async_data :
                  retrieve_job(get_backend(backend), async_data[j].job_id).outcome = "KeyError")
    /\ [][(CachesReset /\ pc = "async_returned" /\ backend' = backend) =>
             /\ pc' = "raised"
             /\ error' = "KeyError"
             /\ UNCHANGED <<statuses, status_calls, data, returned, resolved, num_failed,
                            batch_jobs, async_data>>]_vars
    /\ []((CachesReset /\ pc /= "async_returned") =>
            /\ pc = "raised"
            /\ error = "KeyError"
            /\ data = <<>>
            /\ returned = <<>>
            /\ resolved = <<>>)

\* the statuses were fetched, then the caches were reset, and the next call on the
\* asynchronous result raised KeyError
C29_Witness ==
    /\ CachesReset
    /\ pc = "raised"
    /\ error = "KeyError"
    /\ status_calls > 0
    /\ Len(async_data) >= 2
    /\ data = <<>>

\* ---------------------------------------------------------------- claims on resolve_results
\* the items (BatchJob number, place in the batch) whose job did not fail
SurvivingAt ==
    UNION {{<<b, i>> : i \in DOMAIN batch_jobs[b].keys} :
              b \in {c \in DOMAIN batch_jobs : ~batch_jobs[c].job.failed}}

\* the key of an item and its identity (target, ancilla, phi)
KeyAt(x) == batch_jobs[x[1]].keys[x[2]]

IdentityAt(x) == <<KeyAt(x)[1], KeyAt(x)[2], KeyAt(x)[4]>>

\* the surviving items of one identity
SurvivingOf(label) == {x \in SurvivingAt : IdentityAt(x) = label}

\* submission order of items, and the first of a nonempty set of items
Before(x, y) == x[1] < y[1] \/ (x[1] = y[1] /\ x[2] < y[2])

First(P) == CHOOSE x \in P : \A y \in P : x = y \/ Before(x, y)

\* C30: resolve_results modifies neither its input nor the backend and submits no job
\* (failed jobs are not retried); the metadata handed on is that of the asynchronous
\* result; calling it twice on the same asynchronous result with unchanged jobs returns
\* equal data, whose entries are ordered by the first surviving item of each identity
\* and hold their results in submission order
C30_ResolveResultsIsRepeatable ==
    /\ [][(/\ asynchronous
           /\ \/ pc = "resolving"
              \/ pc \in {"async_returned", "resolved"} /\ pc' \in {"resolving", "raised"})
          => UNCHANGED <<backend, async_data, experiments, asynchronous, gen_pos>>]_vars
    /\ [](\A i, j \in DOMAIN returned : returned[i] = returned[j])
    /\ []((asynchronous /\ pc = "resolved") =>
            LET labels == LabelsOf(data)
                first == [j \in DOMAIN data |-> First(SurvivingOf(labels[j]))]
            IN /\ returned /= <<>>
               /\ data = returned[Len(returned)]
               /\ Range(labels) = {IdentityAt(x) : x \in SurvivingAt}
               /\ \A j, k \in DOMAIN data : j < k => Before(first[j], first[k])
               /\ \A j \in DOMAIN data :
                     LET rs == data[j].results_per_circuit
                         of == SurvivingOf(labels[j])
                         at == [r \in DOMAIN rs |-> {x \in of : KeyAt(x)[3] = rs[r].name}]
                     IN /\ Len(rs) = Cardinality(of)
                        /\ \A r \in DOMAIN rs : Cardinality(at[r]) = 1
                        /\ \A r, s \in DOMAIN rs :
                              r < s => Before(First(at[r]), First(at[s])))

\* resolve_results has returned twice on an asynchronous result one of whose jobs failed
C30_Witness ==
    /\ asynchronous
    /\ pc = "resolved"
    /\ Len(returned) = 2
    /\ num_failed > 0
    /\ Len(data) >= 2
    /\ Len(data[1].results_per_circuit) >= 2

====
